---- MODULE Spec2Model ----
(***************************************************************************)
(* Model of the OpenSky ingestion pipeline of src/app.py: the OAuth2 token *)
(* cache (get_access_token), the authenticated request with its retry on   *)
(* 401 (make_opensky_request) and the state-vector decoding                *)
(* (fetch_all_aircraft_states).                                            *)
(*                                                                         *)
(* Python values are modelled as follows.  None is the string NONE, the    *)
(* empty string is EMPTY, bearer tokens are the strings of Tokens.  The    *)
(* network is the environment: every response is a nondeterministic choice *)
(* among the outcomes requests.post / requests.get can produce.            *)
(***************************************************************************)
EXTENDS Integers, Sequences, FiniteSets, TLC

\* ---------------------------------------------------------------- bounds
NumThreads == 2        \* concurrent callers in SpecConc
MaxTime == 3           \* time.time() ranges over 0..MaxTime
MaxStates == 2         \* longest 'states' array in an API response
MaxPath == 2           \* longest 'path' array in an API response
MaxAircraft == 2       \* longest aircraft list handed to filter_aircraft
MaxLimit == 2          \* largest track_limit requested

\* ------------------------------------------------------ program constants
SAFETY_MARGIN == 60          \* app.py:49   token_expires_at - 60
DEFAULT_EXPIRES_IN == 1800   \* app.py:61   payload.get('expires_in', 1800)
MIN_STATE_LEN == 17          \* app.py:119  len(s) >= 17
HTTP_UNAUTHORIZED == 401     \* app.py:78   r.status_code == 401

\* ------------------------------------------------------------ value sets
NONE == "<None>"
EMPTY == ""
MISSING == "<missing>"
Tokens == {"tokA", "tokB"}
Threads == 1 .. NumThreads
\* the request handler of the sequential specification
Main == CHOOSE t \in Threads : \A u \in Threads : t <= u

\* values the auth endpoint may put in 'expires_in' when it is a number
ExpiresInValues == {SAFETY_MARGIN, SAFETY_MARGIN + 2}

\* the 'expires_in' member of the token payload: absent, a number, or a
\* JSON value that is not a number (a string, null)
ExpiresInFields ==
    {[present |-> FALSE, numeric |-> FALSE, v |-> 0],
     [present |-> TRUE, numeric |-> FALSE, v |-> 0]}
    \cup {[present |-> TRUE, numeric |-> TRUE, v |-> e] : e \in ExpiresInValues}

\* the 'access_token' member: absent, null, "" or a token
AccessTokenFields == {MISSING, NONE, EMPTY} \cup Tokens

\* outcomes of requests.post(OPENSKY_AUTH_URL, ...) followed by
\* raise_for_status() and json()
AuthOutcomes ==
    {[kind |-> k, at |-> MISSING, ei |-> [present |-> FALSE, numeric |-> FALSE, v |-> 0]] :
        k \in {"transport", "http", "nonjson", "nonobject"}}
    \cup {[kind |-> "object", at |-> a, ei |-> e] :
            a \in AccessTokenFields, e \in ExpiresInFields}

\* ------------------------------------------------------------ JSON values
\* a JSON scalar as Python sees it after json(): None, str (a sequence of
\* characters), a number or a bool
JNull == [ty |-> "null", s |-> <<>>, n |-> 0]
JStr(chars) == [ty |-> "str", s |-> chars, n |-> 0]
JNum(k) == [ty |-> "num", s |-> <<>>, n |-> k]
JBool(b) == [ty |-> "bool", s |-> <<>>, n |-> IF b THEN 1 ELSE 0]
JArr(items) == [ty |-> "arr", items |-> items]

\* a state vector of the upstream API: positions 0..16, and 17 when the
\* category is sent (app.py:121-138); Python index i is TLA+ index i + 1
RawRecord(len, icao, callsign, country, alt, ground, cat) ==
    JArr([i \in 1 .. len |->
            CASE i = 1 -> icao
              [] i = 2 -> callsign
              [] i = 3 -> country
              [] i = 8 -> alt
              [] i = 9 -> ground
              [] i = 18 -> cat
              [] OTHER -> JNull])

CS_EJA == <<"E", "J", "A", "1", " ">>
CS_BLANK == <<" ", " ">>
ICAO_A == JStr(<<"a", "1">>)
ICAO_B == JStr(<<"b", "2">>)
US == JStr(<<"U", "S">>)

\* what a 'states' array may hold: well-formed vectors of 16, 17 and 18
\* positions, a vector whose callsign is a number, and a non-array element
StateElements ==
    {RawRecord(MIN_STATE_LEN - 1, ICAO_A, JStr(CS_EJA), US, JNum(5000), JBool(FALSE), JNull),
     RawRecord(MIN_STATE_LEN, ICAO_B, JStr(CS_BLANK), JNull, JNull, JBool(TRUE), JNull),
     RawRecord(MIN_STATE_LEN + 1, ICAO_A, JStr(CS_EJA), US, JNum(5000), JBool(FALSE), JNum(6)),
     RawRecord(MIN_STATE_LEN, ICAO_B, JNum(7), US, JNull, JBool(FALSE), JNull),
     JNum(5)}

RECURSIVE SeqsUpTo(_, _)
SeqsUpTo(S, n) ==
    IF n = 0 THEN {<<>>}
    ELSE LET shorter == SeqsUpTo(S, n - 1)
         IN shorter \cup {Append(q, e) : q \in {x \in shorter : Len(x) = n - 1}, e \in S}

\* a waypoint of the track endpoint (app.py:103):
\* [time, lat, lon, baro_altitude, true_track, on_ground]
Waypoint(lat, lon) == JArr(<<JNum(1), lat, lon, JNull, JNull, JBool(FALSE)>>)

\* what a 'path' array may hold: waypoints with both coordinates (0 is a
\* coordinate), with one missing, and an array too short to hold them
Waypoints ==
    {Waypoint(JNum(10), JNum(20)), Waypoint(JNum(0), JNum(0)),
     Waypoint(JNull, JNum(21)), Waypoint(JNum(12), JNull),
     JArr(<<JNum(1), JNum(10)>>)}

\* objects of the track endpoint: 'path' null or an array (an object with
\* no 'path' member is the "obj" body below)
TrackBodies ==
    {[ty |-> "obj", states |-> JNull, path |-> JNull]}
    \cup {[ty |-> "obj", states |-> JNull, path |-> JArr(q)] :
            q \in SeqsUpTo(Waypoints, MaxPath)}

\* a body that is a JSON number
NumBody(k) == [ty |-> "num", states |-> JNull, n |-> k]

\* bodies r.json() may return: null, the numbers 0 and 5, {}, an object
\* without 'states', and an object whose 'states' is null or an array
Bodies ==
    {[ty |-> "null", states |-> JNull], NumBody(0), NumBody(5),
     [ty |-> "emptyobj", states |-> JNull], [ty |-> "obj", states |-> JNull],
     [ty |-> "states", states |-> JNull]}
    \cup {[ty |-> "states", states |-> JArr(q)] : q \in SeqsUpTo(StateElements, MaxStates)}
    \cup TrackBodies

UNDECODABLE == [ty |-> "undecodable", states |-> JNull]
STATUS_OK == 200
STATUS_SERVER_ERROR == 500

\* outcomes of requests.get(url, ...): an exception (timeout, connection
\* error) or a response with a status and a body
ApiOutcomes ==
    {[kind |-> "transport", status |-> 0, body |-> UNDECODABLE]}
    \cup {[kind |-> "response", status |-> st, body |-> UNDECODABLE] :
            st \in {HTTP_UNAUTHORIZED, STATUS_SERVER_ERROR}}
    \cup {[kind |-> "response", status |-> STATUS_OK, body |-> b] :
            b \in Bodies \cup {UNDECODABLE}}

NoResponse == [kind |-> "none", status |-> 0, body |-> UNDECODABLE]
NoResult == [k |-> "pending", body |-> UNDECODABLE, list |-> <<>>]
ResultNone == [k |-> "none", body |-> UNDECODABLE, list |-> <<>>]

\* ----------------------------------------------------------------- state
VARIABLES
    access_token,       \* app.py:33  module global
    token_expires_at,   \* app.py:34  module global
    token_lock,         \* app.py:35  0 when free, else the thread holding it
    now,                \* time.time()
    pc,                 \* per thread: position in the code
    op,                 \* per thread: the top-level function being run
    site,               \* per thread: call site of get_access_token
    token,              \* per thread: value returned by get_access_token
    r,                  \* per thread: app.py:77,84  the last response
    result,             \* per thread: value returned by the request / fetch
    calls,              \* per thread: network calls made by the running call
    ev,                 \* the get_access_token return made by the last step
    arg,                \* per thread: argument of the top-level call
    pure                \* inputs, loop state and output of filter_aircraft
                        \* and of the track loops (SpecFilter, SpecTracks)

vars == <<access_token, token_expires_at, token_lock, now, pc, op, site, token,
          r, result, calls, ev, arg, pure>>
locals == <<r, result, calls>>

\* ev records the return of get_access_token made by the step that led to
\* the state: the caller, the path taken (hit / fresh / failed), the value
\* returned, the time, the cache as it was before and the POST outcome
NoOutcome ==
    [kind |-> "none", at |-> MISSING, ei |-> [present |-> FALSE, numeric |-> FALSE, v |-> 0]]
NoEvent ==
    [t |-> 0, path |-> "none", tok |-> NONE, at |-> 0,
     pre_tok |-> NONE, pre_exp |-> 0, o |-> NoOutcome]

\* no argument (get_access_token, or endpoint and params that play no part)
NoArg == JNull
\* no pure-function run in progress
NoPure == [fn |-> "none"]

\* ------------------------------------------------------------ token cache
\* Python truthiness of an Optional[str]
Truthy(v) == v # NONE /\ v # EMPTY

\* mutant: the margin is dropped (time.time() < token_expires_at)
CacheValid_NoMargin(tok, exp, t) == Truthy(tok) /\ t < exp

\* mutant: the comparison is inverted (time.time() > token_expires_at - 60)
CacheValid_Inverted(tok, exp, t) == Truthy(tok) /\ t > exp - SAFETY_MARGIN

\* app.py:49  access_token and time.time() < token_expires_at - 60
CacheValid(tok, exp, t) == Truthy(tok) /\ t < exp - SAFETY_MARGIN

\* mutant: no default (payload.get('expires_in', 0))
ExpiresAt_NoDefault(t, ei) == t + ei.v

\* mutant: the lifetime is stored, not the expiry (time.time() is not added)
ExpiresAt_NoClock(t, ei) == IF ei.present THEN ei.v ELSE DEFAULT_EXPIRES_IN

\* app.py:61  time.time() + payload.get('expires_in', 1800)
ExpiresAt(t, ei) == t + (IF ei.present THEN ei.v ELSE DEFAULT_EXPIRES_IN)

\* app.py:57-60: the exchange got as far as assigning access_token
AssignsToken(o) == o.kind = "object" /\ o.at # MISSING

\* app.py:57-63: the exchange ran to 'return access_token'
ExchangeSucceeds(o) == AssignsToken(o) /\ (o.ei.present => o.ei.numeric)

TypeOK ==
    /\ access_token \in {NONE, EMPTY} \cup Tokens
    /\ token_expires_at \in Nat
    /\ token_lock \in {0} \cup Threads
    /\ now \in 0 .. MaxTime

Init ==
    /\ access_token = NONE
    /\ token_expires_at = 0
    /\ token_lock = 0
    /\ now = 0
    /\ pc = [t \in Threads |-> "idle"]
    /\ op = [t \in Threads |-> "none"]
    /\ site = [t \in Threads |-> "none"]
    /\ token = [t \in Threads |-> NONE]
    /\ r = [t \in Threads |-> NoResponse]
    /\ result = [t \in Threads |-> NoResult]
    /\ calls = [t \in Threads |-> <<>>]
    /\ ev = NoEvent
    /\ arg = [t \in Threads |-> NoArg]
    /\ pure = NoPure

\* ------------------------------------------------------- call log (ghost)
\* a POST to the auth endpoint: the token it produced and how it ended
PostCall(tok, out) == [k |-> "POST", tok |-> tok, out |-> out, resp |-> NoResponse]
\* a GET to the API: the bearer token it carried and the response
GetCall(tok, out, resp) == [k |-> "GET", tok |-> tok, out |-> out, resp |-> resp]

\* the log with its last (in-flight) entry completed
CompletedPost(log, tok, out) ==
    [log EXCEPT ![Len(log)] = [@ EXCEPT !.tok = tok, !.out = out]]
CompletedGet(log, resp) ==
    [log EXCEPT ![Len(log)] = [@ EXCEPT !.out = "done", !.resp = resp]]

CountCalls(log, kind) == Cardinality({i \in 1 .. Len(log) : log[i].k = kind})

\* -------------------------------------------------------- get_access_token
\* app.py:359 (and any caller): get_access_token() is called
CallGetAccessToken(t) ==
    /\ pc[t] = "idle"
    /\ pc' = [pc EXCEPT ![t] = "gat_lock"]
    /\ op' = [op EXCEPT ![t] = "get_access_token"]
    /\ site' = [site EXCEPT ![t] = "top"]
    /\ ev' = NoEvent
    /\ UNCHANGED <<arg, pure, access_token, token_expires_at, token_lock, now, token, locals>>

\* mutant: the lock is taken with acquire() and released on the paths that
\* return a token only, the except path keeps it
LockAfter_KeptOnFailure(t, path) == IF path = "failed" THEN t ELSE 0

\* app.py:48  leaving the with block releases token_lock, whichever way
\* the block is left (return of line 50, return of line 63, except of 64-66)
LockAfter(t, path) == 0

\* mutant: the with block is missing, nothing waits
LockFree_Ignored == TRUE

\* app.py:48  with token_lock: the lock can be taken
LockFree == token_lock = 0

AcquireLock(t) ==
    /\ pc[t] = "gat_lock"
    /\ LockFree
    /\ token_lock' = t
    /\ pc' = [pc EXCEPT ![t] = "gat_check"]
    /\ ev' = NoEvent
    /\ UNCHANGED <<arg, pure, access_token, token_expires_at, now, op, site, token, locals>>

\* app.py:49-50  cache hit: return access_token (leaving the with block
\* releases the lock)
CacheHit(t) ==
    /\ pc[t] = "gat_check"
    /\ CacheValid(access_token, token_expires_at, now)
    /\ token' = [token EXCEPT ![t] = access_token]
    /\ token_lock' = LockAfter(t, "hit")
    /\ pc' = [pc EXCEPT ![t] = "gat_ret"]
    /\ ev' = [t |-> t, path |-> "hit", tok |-> access_token, at |-> now,
              pre_tok |-> access_token, pre_exp |-> token_expires_at, o |-> NoOutcome]
    /\ UNCHANGED <<arg, pure, access_token, token_expires_at, now, op, site, locals>>

\* app.py:49,51-57  cache miss: the POST is sent
SendExchange(t) ==
    /\ pc[t] = "gat_check"
    /\ ~CacheValid(access_token, token_expires_at, now)
    /\ pc' = [pc EXCEPT ![t] = "gat_post"]
    /\ calls' = [calls EXCEPT ![t] = Append(@, PostCall(NONE, "inflight"))]
    /\ ev' = NoEvent
    /\ UNCHANGED <<arg, pure, access_token, token_expires_at, token_lock, now, op, site, token,
                   r, result>>

\* app.py:57-66  the POST answers (or fails) with outcome o; an exception
\* raised after line 60 leaves the assignment of line 60 in place
Exchange(t) ==
    /\ pc[t] = "gat_post"
    /\ \E o \in AuthOutcomes :
        LET ok == ExchangeSucceeds(o)
            ret == IF ok THEN o.at ELSE NONE
        IN  /\ access_token' = IF AssignsToken(o) THEN o.at ELSE access_token
            /\ token_expires_at' = IF ok THEN ExpiresAt(now, o.ei) ELSE token_expires_at
            /\ token' = [token EXCEPT ![t] = ret]
            /\ calls' = [calls EXCEPT ![t] =
                            CompletedPost(@, ret, IF ok THEN "ok" ELSE "failed")]
            /\ ev' = [t |-> t, path |-> IF ok THEN "fresh" ELSE "failed",
                      tok |-> ret, at |-> now,
                      pre_tok |-> access_token, pre_exp |-> token_expires_at, o |-> o]
            /\ token_lock' = LockAfter(t, IF ok THEN "fresh" ELSE "failed")
    /\ pc' = [pc EXCEPT ![t] = "gat_ret"]
    /\ UNCHANGED <<arg, now, op, site, r, result>>

ExchangeResponse(t) == Exchange(t) /\ UNCHANGED pure

\* the caller's frame is dropped when its function has returned
Reset(t) ==
    /\ pc' = [pc EXCEPT ![t] = "idle"]
    /\ op' = [op EXCEPT ![t] = "none"]
    /\ site' = [site EXCEPT ![t] = "none"]
    /\ token' = [token EXCEPT ![t] = NONE]
    /\ r' = [r EXCEPT ![t] = NoResponse]
    /\ result' = [result EXCEPT ![t] = NoResult]
    /\ calls' = [calls EXCEPT ![t] = <<>>]
    /\ arg' = [arg EXCEPT ![t] = NoArg]
    /\ ev' = NoEvent

\* the top-level get_access_token call is over
ReturnToken(t) ==
    /\ pc[t] = "gat_ret"
    /\ site[t] = "top"
    /\ Reset(t)
    /\ UNCHANGED <<pure, access_token, token_expires_at, token_lock, now>>

\* ---------------------------------------------------- make_opensky_request
\* app.py:69-71  make_opensky_request(endpoint, params) is called
CallMakeRequest(t) ==
    /\ pc[t] = "idle"
    /\ pc' = [pc EXCEPT ![t] = "gat_lock"]
    /\ op' = [op EXCEPT ![t] = "make_opensky_request"]
    /\ site' = [site EXCEPT ![t] = "line71"]
    /\ ev' = NoEvent
    /\ UNCHANGED <<arg, pure, access_token, token_expires_at, token_lock, now, token, locals>>

\* mutant: 'if token is None' in place of 'if not token'
HasToken_NotNone(tok) == tok # NONE

\* app.py:72, 81  if not token
HasToken(tok) == Truthy(tok)

\* app.py:72-73, 81-82  return None without a GET
NoToken(t) ==
    /\ pc[t] = "gat_ret"
    /\ site[t] \in {"line71", "line80"}
    /\ ~HasToken(token[t])
    /\ result' = [result EXCEPT ![t] = ResultNone]
    /\ pc' = [pc EXCEPT ![t] = "mor_ret"]
    /\ ev' = NoEvent
    /\ UNCHANGED <<arg, pure, access_token, token_expires_at, token_lock, now, op, site, token,
                   r, calls>>

\* app.py:74-77, 83-84  the GET is sent with the bearer token
SendRequest(t) ==
    /\ pc[t] = "gat_ret"
    /\ site[t] \in {"line71", "line80"}
    /\ HasToken(token[t])
    /\ calls' = [calls EXCEPT ![t] = Append(@, GetCall(token[t], "inflight", NoResponse))]
    /\ pc' = [pc EXCEPT ![t] = "mor_get"]
    /\ ev' = NoEvent
    /\ UNCHANGED <<arg, pure, access_token, token_expires_at, token_lock, now, op, site, token,
                   r, result>>

\* mutant: the 401 test is in a loop, every 401 re-authenticates
ShouldReauth_Every401(resp, from) ==
    resp.kind = "response" /\ resp.status = HTTP_UNAUTHORIZED

\* mutant: every error status re-authenticates (status_code >= 400)
ShouldReauth_AnyError(resp, from) ==
    resp.kind = "response" /\ resp.status >= 400 /\ from = "line71"

\* app.py:78  r.status_code == 401, tested after the GET of line 77 only
ShouldReauth(resp, from) ==
    resp.kind = "response" /\ resp.status = HTTP_UNAUTHORIZED /\ from = "line71"

\* app.py:85  raise_for_status() raises on 4xx and 5xx
StatusRaises(status) == status >= 400 /\ status < 600

\* app.py:86  r.json() on a decodable body (JSON null is None)
PyJson(body) ==
    IF body.ty = "null" THEN ResultNone
    ELSE [k |-> "json", body |-> body, list |-> <<>>]

\* app.py:85-89  the value returned once the last response is in: None when
\* requests.get, raise_for_status or json raised, else the decoded body
\* (JSON null decodes to None)
RequestResult(resp) ==
    IF \/ resp.kind # "response"
       \/ StatusRaises(resp.status)
       \/ resp.body = UNDECODABLE
    THEN ResultNone
    ELSE PyJson(resp.body)

\* app.py:77-89  the GET answers (or fails)
ApiResponse(t) ==
    /\ pc[t] = "mor_get"
    /\ \E resp \in ApiOutcomes :
        /\ r' = [r EXCEPT ![t] = resp]
        /\ calls' = [calls EXCEPT ![t] = CompletedGet(@, resp)]
        /\ IF ShouldReauth(resp, site[t])
           THEN /\ site' = [site EXCEPT ![t] = "line80"]
                /\ pc' = [pc EXCEPT ![t] = "gat_lock"]
                /\ UNCHANGED result
           ELSE /\ result' = [result EXCEPT ![t] = RequestResult(resp)]
                /\ pc' = [pc EXCEPT ![t] = "mor_ret"]
                /\ UNCHANGED site
    /\ ev' = NoEvent
    /\ UNCHANGED <<arg, pure, access_token, token_expires_at, token_lock, now, op, token>>

\* the top-level make_opensky_request call is over
ReturnRequest(t) ==
    /\ pc[t] = "mor_ret"
    /\ op[t] = "make_opensky_request"
    /\ Reset(t)
    /\ UNCHANGED <<pure, access_token, token_expires_at, token_lock, now>>

\* ------------------------------------------------ fetch_all_aircraft_states
\* app.py:109-114  fetch_all_aircraft_states(bbox) is called; its first
\* effect is the call of make_opensky_request
CallFetchStates(t) ==
    /\ pc[t] = "idle"
    /\ pc' = [pc EXCEPT ![t] = "gat_lock"]
    /\ op' = [op EXCEPT ![t] = "fetch_all_aircraft_states"]
    /\ site' = [site EXCEPT ![t] = "line71"]
    /\ ev' = NoEvent
    /\ UNCHANGED <<arg, pure, access_token, token_expires_at, token_lock, now, token, locals>>

\* Python truthiness of a JSON scalar
Falsy(j) ==
    \/ j.ty = "null"
    \/ j.ty = "str" /\ j.s = <<>>
    \/ j.ty \in {"num", "bool"} /\ j.n = 0

\* str.strip() on a sequence of characters
RECURSIVE LStrip(_)
LStrip(cs) == IF cs # <<>> /\ Head(cs) = " " THEN LStrip(Tail(cs)) ELSE cs
RECURSIVE RStrip(_)
RStrip(cs) ==
    IF cs # <<>> /\ cs[Len(cs)] = " " THEN RStrip(SubSeq(cs, 1, Len(cs) - 1)) ELSE cs
Strip(cs) == RStrip(LStrip(cs))

NA == JStr(<<"N", "/", "A">>)
UNKNOWN == JStr(<<"U", "n", "k", "n", "o", "w", "n">>)

\* app.py:119  len(s) raises TypeError unless s is an array
HasLen(s) == s.ty = "arr"

\* mutant: off by one (len(s) > 17)
LongEnough_OffByOne(s) == Len(s.items) > MIN_STATE_LEN

\* app.py:119  len(s) >= 17
LongEnough(s) == Len(s.items) >= MIN_STATE_LEN

\* app.py:122  (s[1] or '').strip() raises AttributeError when s[1] is a
\* truthy value that is not a str
CallsignRaises(s) == ~Falsy(s.items[2]) /\ s.items[2].ty # "str"

\* app.py:122  (s[1] or '').strip() or 'N/A'
Callsign(s) ==
    LET stripped == IF Falsy(s.items[2]) THEN <<>> ELSE Strip(s.items[2].s)
    IN IF stripped = <<>> THEN NA ELSE JStr(stripped)

\* app.py:120-139  the dict built from one state vector
DecodeState(s) ==
    [icao24 |-> s.items[1],
     callsign |-> Callsign(s),
     origin_country |-> IF Falsy(s.items[3]) THEN UNKNOWN ELSE s.items[3],
     time_position |-> s.items[4],
     last_contact |-> s.items[5],
     longitude |-> s.items[6],
     latitude |-> s.items[7],
     baro_altitude |-> s.items[8],
     on_ground |-> s.items[9],
     velocity |-> s.items[10],
     true_track |-> s.items[11],
     vertical_rate |-> s.items[12],
     sensors |-> s.items[13],
     geo_altitude |-> s.items[14],
     squawk |-> s.items[15],
     spi |-> s.items[16],
     position_source |-> s.items[17],
     category |-> IF Len(s.items) > MIN_STATE_LEN THEN s.items[18] ELSE JNull]

\* app.py:118-139  the loop over resp['states']: "raised" as soon as one
\* element makes len() or strip() raise, else the list built
RECURSIVE DecodeLoop(_, _)
DecodeLoop(raw, acc) ==
    IF raw = <<>> THEN [k |-> "list", body |-> UNDECODABLE, list |-> acc]
    ELSE LET s == Head(raw)
         IN IF ~HasLen(s) THEN [k |-> "raised", body |-> UNDECODABLE, list |-> <<>>]
            ELSE IF ~LongEnough(s) THEN DecodeLoop(Tail(raw), acc)
            ELSE IF CallsignRaises(s)
                 THEN [k |-> "raised", body |-> UNDECODABLE, list |-> <<>>]
            ELSE DecodeLoop(Tail(raw), Append(acc, DecodeState(s)))

\* app.py:99, 115  'not resp' on what make_opensky_request returned: true
\* for None, {} and the number 0
NotResp(resp) ==
    \/ resp.k = "none"
    \/ resp.body.ty = "emptyobj"
    \/ resp.body.ty = "num" /\ resp.body.n = 0

\* app.py:115  not resp or 'states' not in resp  (None, {}, 0 and an object
\* without 'states' give []; 'in' on a number other than 0 raises TypeError)
\* app.py:118  iterating resp['states'] raises TypeError when it is null
FetchResult(resp) ==
    IF NotResp(resp) \/ resp.body.ty = "obj"
    THEN [k |-> "list", body |-> UNDECODABLE, list |-> <<>>]
    ELSE IF resp.body.ty = "num" \/ resp.body.states.ty # "arr"
    THEN [k |-> "raised", body |-> UNDECODABLE, list |-> <<>>]
    ELSE DecodeLoop(resp.body.states.items, <<>>)

\* app.py:115-141  the response of make_opensky_request is decoded
DecodeStates(t) ==
    /\ pc[t] = "mor_ret"
    /\ op[t] = "fetch_all_aircraft_states"
    /\ result' = [result EXCEPT ![t] = FetchResult(@)]
    /\ pc' = [pc EXCEPT ![t] = "fetch_ret"]
    /\ ev' = NoEvent
    /\ UNCHANGED <<arg, pure, access_token, token_expires_at, token_lock, now, op, site, token,
                   r, calls>>

\* the top-level fetch_all_aircraft_states call is over (returned or raised)
ReturnStates(t) ==
    /\ pc[t] = "fetch_ret"
    /\ Reset(t)
    /\ UNCHANGED <<pure, access_token, token_expires_at, token_lock, now>>

\* --------------------------------------------------------- fetch_live_track
\* identifiers handed to fetch_live_track: '' and an ICAO24 address
Identifiers == {JStr(<<>>), ICAO_A}

RaisedResult == [k |-> "raised", body |-> UNDECODABLE, list |-> <<>>]
ListResult(q) == [k |-> "list", body |-> UNDECODABLE, list |-> q]

\* app.py:92-98  fetch_live_track(icao24) is called: an empty identifier
\* returns [] at once, any other goes to make_opensky_request
CallFetchTrack(t) ==
    /\ pc[t] = "idle"
    /\ \E icao \in Identifiers :
        /\ arg' = [arg EXCEPT ![t] = icao]
        /\ IF Falsy(icao)
           THEN /\ pc' = [pc EXCEPT ![t] = "track_ret"]
                /\ result' = [result EXCEPT ![t] = ListResult(<<>>)]
                /\ UNCHANGED site
           ELSE /\ pc' = [pc EXCEPT ![t] = "gat_lock"]
                /\ site' = [site EXCEPT ![t] = "line71"]
                /\ UNCHANGED result
    /\ op' = [op EXCEPT ![t] = "fetch_live_track"]
    /\ ev' = NoEvent
    /\ UNCHANGED <<pure, access_token, token_expires_at, token_lock, now, token, r, calls>>

\* app.py:104  wp[1], wp[2] raise unless wp is an array of 3 or more
Subscriptable(wp) == wp.ty = "arr" /\ Len(wp.items) >= 3

\* mutant: 'if lat and lon' in place of the tests against None
CoordsPresent_Truthy(wp) == ~Falsy(wp.items[2]) /\ ~Falsy(wp.items[3])

\* app.py:105  lat is not None and lon is not None
CoordsPresent(wp) == wp.items[2].ty # "null" /\ wp.items[3].ty # "null"

\* app.py:101-107  the loop over the waypoints
RECURSIVE TrackLoop(_, _)
TrackLoop(path, coords) ==
    IF path = <<>> THEN ListResult(coords)
    ELSE LET wp == Head(path)
         IN IF ~Subscriptable(wp) THEN RaisedResult
            ELSE IF CoordsPresent(wp)
                 THEN TrackLoop(Tail(path), Append(coords, <<wp.items[2], wp.items[3]>>))
            ELSE TrackLoop(Tail(path), coords)

\* app.py:99  'path' in data, for a data that is an object
HasPath(body) == "path" \in DOMAIN body

\* app.py:99-107  not data or 'path' not in data gives [] (None, {}, 0, an
\* object without 'path'; 'in' on a number other than 0 raises TypeError);
\* iterating data.get('path', []) raises TypeError when 'path' is null
TrackResult(data) ==
    IF NotResp(data) THEN ListResult(<<>>)
    ELSE IF data.body.ty = "num" THEN RaisedResult
    ELSE IF ~HasPath(data.body) THEN ListResult(<<>>)
    ELSE IF data.body.path.ty # "arr" THEN RaisedResult
    ELSE TrackLoop(data.body.path.items, <<>>)

\* app.py:99-107  the response of make_opensky_request is turned into coords
DecodeTrack(t) ==
    /\ pc[t] = "mor_ret"
    /\ op[t] = "fetch_live_track"
    /\ result' = [result EXCEPT ![t] = TrackResult(@)]
    /\ pc' = [pc EXCEPT ![t] = "track_ret"]
    /\ ev' = NoEvent
    /\ UNCHANGED <<arg, pure, access_token, token_expires_at, token_lock, now, op, site,
                   token, r, calls>>

\* the top-level fetch_live_track call is over (returned or raised)
ReturnTrack(t) ==
    /\ pc[t] = "track_ret"
    /\ Reset(t)
    /\ UNCHANGED <<pure, access_token, token_expires_at, token_lock, now>>

\* time passes
Tick ==
    /\ now < MaxTime
    /\ now' = now + 1
    /\ ev' = NoEvent
    /\ UNCHANGED <<arg, pure, access_token, token_expires_at, token_lock, pc, op, site, token,
                   locals>>

\* ----------------------------------------------------------- filter_aircraft
\* everything but 'pure': no call in progress, nothing cached
system == <<access_token, token_expires_at, token_lock, now, pc, op, site, token,
            r, result, calls, ev, arg>>

NoCalls ==
    /\ access_token = NONE
    /\ token_expires_at = 0
    /\ token_lock = 0
    /\ now = 0
    /\ pc = [t \in Threads |-> "idle"]
    /\ op = [t \in Threads |-> "none"]
    /\ site = [t \in Threads |-> "none"]
    /\ token = [t \in Threads |-> NONE]
    /\ r = [t \in Threads |-> NoResponse]
    /\ result = [t \in Threads |-> NoResult]
    /\ calls = [t \in Threads |-> <<>>]
    /\ ev = NoEvent
    /\ arg = [t \in Threads |-> NoArg]

\* str.upper() on a sequence of characters
LOWER == <<"a", "b", "c", "d", "e", "f", "g", "h", "i", "j", "k", "l", "m",
           "n", "o", "p", "q", "r", "s", "t", "u", "v", "w", "x", "y", "z">>
UPPER == <<"A", "B", "C", "D", "E", "F", "G", "H", "I", "J", "K", "L", "M",
           "N", "O", "P", "Q", "R", "S", "T", "U", "V", "W", "X", "Y", "Z">>
UpperChar(c) ==
    IF \E i \in DOMAIN LOWER : LOWER[i] = c
    THEN UPPER[CHOOSE i \in DOMAIN LOWER : LOWER[i] = c]
    ELSE c
Upper(cs) == [i \in DOMAIN cs |-> UpperChar(cs[i])]

\* 'pat in text' on sequences of characters
Contains(pat, text) ==
    \E i \in 0 .. Len(text) - Len(pat) : SubSeq(text, i + 1, i + Len(pat)) = pat

\* decoded states handed to filter_aircraft, as fetch_all_aircraft_states
\* builds them: callsigns in both cases and blank, altitudes 0, 5000, 12000
\* and None, both ground flags, categories 0, 6 and None
CS_LOWER == <<"e", "j", "a", "9">>
CS_UAL == <<"U", "A", "L", "4">>
DE == JStr(<<"D", "E">>)
Aircraft ==
    {DecodeState(RawRecord(MIN_STATE_LEN + 1, ICAO_A, JStr(CS_EJA), US, JNum(5000), JBool(FALSE), JNum(6))),
     DecodeState(RawRecord(MIN_STATE_LEN + 1, ICAO_B, JStr(CS_LOWER), DE, JNull, JBool(FALSE), JNum(0))),
     DecodeState(RawRecord(MIN_STATE_LEN + 1, ICAO_A, JStr(CS_UAL), US, JNum(0), JBool(TRUE), JNum(0))),
     DecodeState(RawRecord(MIN_STATE_LEN, ICAO_B, JStr(CS_BLANK), JNull, JNum(12000), JBool(TRUE), JNull))}

\* one key of the filters dict: absent, or present with a value (the
\* callers drop the keys whose value is None, app.py:283 and app.py:307)
Absent == [has |-> FALSE, v |-> JNull]
Given(v) == [has |-> TRUE, v |-> v]
Filters ==
    [callsign_pattern : {Absent, Given(JStr(<<>>)), Given(JStr(<<"e", "j", "a">>)),
                         Given(JStr(<<"A", "1">>))},
     country : {Absent, Given(JStr(<<>>)), Given(US)},
     category : {Absent, Given(JNum(0)), Given(JNum(6))},
     min_altitude : {Absent, Given(JNum(0)), Given(JNum(5000))},
     max_altitude : {Absent, Given(JNum(0)), Given(JNum(5000))},
     on_ground : {Absent, Given(JBool(TRUE)), Given(JBool(FALSE))}]

\* filters.get(key)
Get(filters, key) == IF filters[key].has THEN filters[key].v ELSE JNull

\* mutant: the callsign is compared as it is, without upper()
CallsignMatches_CaseSensitive(pattern, x) ==
    Contains(pattern.s, IF Falsy(x.callsign) THEN <<>> ELSE x.callsign.s)

\* app.py:251-252  pat in (x['callsign'] or '').upper(), pat upper-cased
CallsignMatches(pattern, x) ==
    Contains(Upper(pattern.s), Upper(IF Falsy(x.callsign) THEN <<>> ELSE x.callsign.s))

\* mutant: 'if filters.get('min_altitude'):' in place of 'is not None'
MinAltitudeGiven_Truthy(filters) == ~Falsy(Get(filters, "min_altitude"))

\* app.py:257  filters.get('min_altitude') is not None
MinAltitudeGiven(filters) == Get(filters, "min_altitude").ty # "null"

\* app.py:258, 260  x['baro_altitude'] is not None and x['baro_altitude'] >= / <= bound
AtLeast(x, bound) == x.baro_altitude.ty # "null" /\ x.baro_altitude.n >= bound.n
AtMost(x, bound) == x.baro_altitude.ty # "null" /\ x.baro_altitude.n <= bound.n

\* app.py:247-263  the six passes of filter_aircraft, each one skipped when
\* its key is missing, None or (callsign_pattern, country) empty
FilterAircraft(aircraft, filters) ==
    LET ByCallsign(x) == CallsignMatches(Get(filters, "callsign_pattern"), x)
        ByCountry(x) == x.origin_country = Get(filters, "country")
        ByCategory(x) == x.category = Get(filters, "category")
        ByMin(x) == AtLeast(x, Get(filters, "min_altitude"))
        ByMax(x) == AtMost(x, Get(filters, "max_altitude"))
        ByGround(x) == x.on_ground = Get(filters, "on_ground")
        d1 == IF ~Falsy(Get(filters, "callsign_pattern"))
              THEN SelectSeq(aircraft, ByCallsign) ELSE aircraft
        d2 == IF ~Falsy(Get(filters, "country")) THEN SelectSeq(d1, ByCountry) ELSE d1
        d3 == IF Get(filters, "category").ty # "null" THEN SelectSeq(d2, ByCategory) ELSE d2
        d4 == IF MinAltitudeGiven(filters) THEN SelectSeq(d3, ByMin) ELSE d3
        d5 == IF Get(filters, "max_altitude").ty # "null" THEN SelectSeq(d4, ByMax) ELSE d4
        d6 == IF Get(filters, "on_ground").ty # "null" THEN SelectSeq(d5, ByGround) ELSE d5
    IN d6

\* a call filter_aircraft(aircraft, filters) about to run; 'given' keeps the
\* arguments as they were handed over
InitFilter ==
    /\ NoCalls
    /\ \E a \in SeqsUpTo(Aircraft, MaxAircraft), f \in Filters :
          pure = [fn |-> "filter_aircraft", aircraft |-> a, filters |-> f,
                  given |-> a, done |-> FALSE, out |-> <<>>]

\* app.py:247-263  filter_aircraft runs: new lists are built, the arguments
\* are only read
ApplyFilter ==
    /\ pure.fn = "filter_aircraft"
    /\ ~pure.done
    /\ pure' = [pure EXCEPT !.done = TRUE,
                            !.out = FilterAircraft(pure.aircraft, pure.filters)]
    /\ UNCHANGED system

NextFilter == ApplyFilter

SpecFilter == InitFilter /\ [][NextFilter]_vars

\* ------------------------------------- get_access_token, concurrent burst
\* all the threads have called get_access_token() and none has taken the
\* lock yet; the cache is empty, or holds a token that has expired
InitRace ==
    /\ \E cached \in {[tok |-> NONE, exp |-> 0], [tok |-> "tokA", exp |-> SAFETY_MARGIN]} :
          /\ access_token = cached.tok
          /\ token_expires_at = cached.exp
    /\ token_lock = 0
    /\ now = 0
    /\ pc = [t \in Threads |-> "gat_lock"]
    /\ op = [t \in Threads |-> "get_access_token"]
    /\ site = [t \in Threads |-> "top"]
    /\ token = [t \in Threads |-> NONE]
    /\ r = [t \in Threads |-> NoResponse]
    /\ result = [t \in Threads |-> NoResult]
    /\ calls = [t \in Threads |-> <<>>]
    /\ ev = NoEvent
    /\ arg = [t \in Threads |-> NoArg]
    /\ pure = [fn |-> "get_access_token", exchanges |-> <<>>]

\* app.py:57-66  the POST answers; the exchanges of the burst are recorded
\* in the order they completed (ghost): how each ended, the token returned,
\* when, and the expires_in used
RaceExchange(t) ==
    /\ Exchange(t)
    /\ pure' = [pure EXCEPT !.exchanges =
                    Append(@, [path |-> ev'.path, tok |-> ev'.tok, at |-> ev'.at,
                               life |-> IF ev'.path = "fresh"
                                        THEN ExpiresAt(0, ev'.o.ei) ELSE 0])]

NextRace ==
    \/ \E t \in Threads : AcquireLock(t)
    \/ \E t \in Threads : CacheHit(t)
    \/ \E t \in Threads : SendExchange(t)
    \/ \E t \in Threads : RaceExchange(t)
    \/ Tick

SpecRace == InitRace /\ [][NextRace]_vars

\* ------------------------------------------------ termination of the calls
\* the answers the auth endpoint gives here: no answer (timeout), a token
\* that lasts (expires_in absent) and a token inside the margin at once
LiveAuthOutcomes ==
    {o \in AuthOutcomes :
        \/ o.kind = "transport"
        \/ /\ o.kind = "object"
           /\ o.at = "tokA"
           /\ ~o.ei.present \/ (o.ei.numeric /\ o.ei.v = SAFETY_MARGIN)}

\* app.py:57-66  the POST returns or times out
LiveExchange(t) ==
    /\ ExchangeResponse(t)
    /\ ev'.o \in LiveAuthOutcomes

\* app.py:77-89  the GET returns or times out; whether the call ends does
\* not depend on the body, so the answers are those without one (timeout,
\* 401, 500, 200 with an undecodable body)
LiveApiResponse(t) ==
    /\ ApiResponse(t)
    /\ r'[t].body = UNDECODABLE

\* the steps of thread t that wait for nothing but the processor or the
\* network
Proceed(t) ==
    \/ CacheHit(t)
    \/ SendExchange(t)
    \/ LiveExchange(t)
    \/ ReturnToken(t)
    \/ NoToken(t)
    \/ SendRequest(t)
    \/ LiveApiResponse(t)
    \/ ReturnRequest(t)

\* the threads that call make_opensky_request too: Main and the next one
Requesters == {t \in Threads : \A u \in Threads : u < t => u = Main}

\* every thread calls get_access_token, two of them make_opensky_request
\* as well, again and again
NextLive ==
    \/ \E t \in Threads : CallGetAccessToken(t)
    \/ \E t \in Requesters : CallMakeRequest(t)
    \/ \E t \in Threads : AcquireLock(t)
    \/ \E t \in Threads : Proceed(t)

\* every running thread keeps running and every network call returns or
\* times out (weak fairness); a thread waiting for token_lock gets it if it
\* is free again and again (strong fairness: the lock is fair)
Fairness ==
    \A t \in Threads : WF_vars(Proceed(t)) /\ SF_vars(AcquireLock(t))

SpecLive == Init /\ [][NextLive]_vars /\ Fairness

\* ------------------------------------- api_tracks_bulk / create_flight_map
\* track_limit values: negative, 0 and positive
Limits == -1 .. MaxLimit

\* app.py:225, 347  max(0, track_limit)
Max0(limit) == IF limit > 0 THEN limit ELSE 0

\* the filtered aircraft the loop runs over: the airborne ones
Tracked == {x \in Aircraft : x.on_ground = JBool(FALSE)}

\* track_icao24_whitelist of create_flight_map: None, or a set of addresses
NoWhitelist == [given |-> FALSE, set |-> {}]
Whitelists == {NoWhitelist, [given |-> TRUE, set |-> {ICAO_A}]}

\* the token cache when the loop starts: empty (create_flight_map called on
\* a fresh module, or every exchange failed so far), or the token cached by
\* the fetch_all_aircraft_states call of the handler, valid or expired
LoopCaches ==
    {[tok |-> NONE, exp |-> 0],
     [tok |-> "tokA", exp |-> DEFAULT_EXPIRES_IN],
     [tok |-> "tokA", exp |-> SAFETY_MARGIN]}

\* the answers of the track endpoint here: no answer, 401, 500, and 200
\* with a 'path' that is null or holds 0, 1 or 2 points
TrackApiOutcomes ==
    {o \in ApiOutcomes :
        \/ o.body = UNDECODABLE
        \/ /\ o.body \in TrackBodies
           /\ \/ o.body.path = JNull
              \/ /\ o.body.path # JNull
                 /\ \A i \in 1 .. Len(o.body.path.items) :
                       o.body.path.items[i] = Waypoint(JNum(10), JNum(20))}

\* the track loop of api_tracks_bulk (app.py:344-346) or of create_flight_map
\* with show_tracks (app.py:222-224) is about to start in thread Main, over
\* the filtered aircraft; api_tracks_bulk has no whitelist and has got its
\* aircraft from fetch_all_aircraft_states, with a token
InitTracks ==
    /\ \E fn \in {"api_tracks_bulk", "create_flight_map"},
          data \in SeqsUpTo(Tracked, MaxAircraft), limit \in Limits,
          wl \in Whitelists, cached \in LoopCaches :
          /\ fn = "api_tracks_bulk" => ~wl.given
          /\ (fn = "api_tracks_bulk" /\ data # <<>>) => Truthy(cached.tok)
          /\ access_token = cached.tok
          /\ token_expires_at = cached.exp
          /\ op = [t \in Threads |-> IF t = Main THEN fn ELSE "none"]
          /\ pure = [fn |-> fn, data |-> data, limit |-> limit, whitelist |-> wl,
                     i |-> 1, count |-> 0, fetches |-> 0, out |-> <<>>,
                     lines |-> <<>>, at |-> "loop"]
    /\ token_lock = 0
    /\ now = 0
    /\ pc = [t \in Threads |-> IF t = Main THEN "loop" ELSE "idle"]
    /\ site = [t \in Threads |-> "none"]
    /\ token = [t \in Threads |-> NONE]
    /\ r = [t \in Threads |-> NoResponse]
    /\ result = [t \in Threads |-> NoResult]
    /\ calls = [t \in Threads |-> <<>>]
    /\ ev = NoEvent
    /\ arg = [t \in Threads |-> NoArg]

\* thread Main is at the head of the loop
AtLoopHead ==
    /\ pure.fn \in {"api_tracks_bulk", "create_flight_map"}
    /\ pc[Main] = "loop"

\* app.py:225, 347  count >= max(0, limit)
LimitReached == pure.count >= Max0(pure.limit)

\* app.py:351  out[a['icao24']] = coords
SetItem(d, key, value) ==
    [k \in DOMAIN d \cup {key} |-> IF k = key THEN value ELSE d[k]]

\* the handler leaves the loop: its frame is dropped
LeaveLoop(how) ==
    /\ pure' = [pure EXCEPT !.at = how]
    /\ Reset(Main)
    /\ UNCHANGED <<access_token, token_expires_at, token_lock, now>>

\* app.py:224, 346  the aircraft are exhausted
LoopEnd ==
    /\ AtLoopHead
    /\ pure.i > Len(pure.data)
    /\ LeaveLoop("done")

\* app.py:225-226, 347-348  break once count reaches max(0, limit); with a
\* whitelist the limit is not tested
LoopBreak ==
    /\ AtLoopHead
    /\ pure.i <= Len(pure.data)
    /\ ~pure.whitelist.given
    /\ LimitReached
    /\ LeaveLoop("done")

\* app.py:227-228  an aircraft that is not in the whitelist is passed over
LoopSkip ==
    /\ AtLoopHead
    /\ pure.i <= Len(pure.data)
    /\ pure.whitelist.given
    /\ pure.data[pure.i].icao24 \notin pure.whitelist.set
    /\ pure' = [pure EXCEPT !.i = @ + 1]
    /\ ev' = NoEvent
    /\ UNCHANGED <<access_token, token_expires_at, token_lock, now, pc, op, site, token,
                   r, result, calls, arg>>

\* app.py:229, 349 with 92-98  fetch_live_track(a['icao24']) is called from
\* the loop
StartFetch ==
    /\ AtLoopHead
    /\ pure.i <= Len(pure.data)
    /\ IF pure.whitelist.given
       THEN pure.data[pure.i].icao24 \in pure.whitelist.set
       ELSE ~LimitReached
    /\ pure' = [pure EXCEPT !.fetches = @ + 1]
    /\ arg' = [arg EXCEPT ![Main] = pure.data[pure.i].icao24]
    /\ op' = [op EXCEPT ![Main] = "fetch_live_track"]
    /\ IF Falsy(pure.data[pure.i].icao24)
       THEN /\ pc' = [pc EXCEPT ![Main] = "track_ret"]
            /\ result' = [result EXCEPT ![Main] = ListResult(<<>>)]
            /\ UNCHANGED site
       ELSE /\ pc' = [pc EXCEPT ![Main] = "gat_lock"]
            /\ site' = [site EXCEPT ![Main] = "line71"]
            /\ UNCHANGED result
    /\ ev' = NoEvent
    /\ UNCHANGED <<access_token, token_expires_at, token_lock, now, token, r, calls>>

\* app.py:77-89  the GET of the track endpoint answers (or fails)
TrackApiResponse(t) ==
    /\ ApiResponse(t)
    /\ r'[t] \in TrackApiOutcomes

\* app.py:230-232, 350-352  fetch_live_track is back: an exception ends the
\* handler, a track of 2 points or more is kept and counted, and the loop
\* goes on with the next aircraft
TrackReturned ==
    /\ pure.fn \in {"api_tracks_bulk", "create_flight_map"}
    /\ pc[Main] = "track_ret"
    /\ IF result[Main].k = "raised"
       THEN LeaveLoop("raised")
       ELSE /\ pure' =
                 IF Len(result[Main].list) >= 2
                 THEN [pure EXCEPT
                         !.i = @ + 1,
                         !.count = @ + 1,
                         !.out = IF pure.fn = "api_tracks_bulk"
                                 THEN SetItem(@, pure.data[pure.i].icao24, result[Main].list)
                                 ELSE @,
                         !.lines = IF pure.fn = "create_flight_map"
                                   THEN Append(@, result[Main].list)
                                   ELSE @]
                 ELSE [pure EXCEPT !.i = @ + 1]
            /\ pc' = [pc EXCEPT ![Main] = "loop"]
            /\ op' = [op EXCEPT ![Main] = pure.fn]
            /\ site' = [site EXCEPT ![Main] = "none"]
            /\ token' = [token EXCEPT ![Main] = NONE]
            /\ r' = [r EXCEPT ![Main] = NoResponse]
            /\ result' = [result EXCEPT ![Main] = NoResult]
            /\ calls' = [calls EXCEPT ![Main] = <<>>]
            /\ arg' = [arg EXCEPT ![Main] = NoArg]
            /\ ev' = NoEvent
            /\ UNCHANGED <<access_token, token_expires_at, token_lock, now>>

\* the handler in thread Main, each fetch running get_access_token and
\* make_opensky_request step by step, while the other threads call
\* get_access_token
NextTracks ==
    \/ LoopEnd
    \/ LoopBreak
    \/ LoopSkip
    \/ StartFetch
    \/ NoToken(Main)
    \/ SendRequest(Main)
    \/ TrackApiResponse(Main)
    \/ DecodeTrack(Main)
    \/ TrackReturned
    \/ \E t \in Threads \ {Main} : CallGetAccessToken(t)
    \/ \E t \in Threads : AcquireLock(t)
    \/ \E t \in Threads : CacheHit(t)
    \/ \E t \in Threads : SendExchange(t)
    \/ \E t \in Threads : LiveExchange(t)
    \/ \E t \in Threads \ {Main} : ReturnToken(t)
    \/ Tick

SpecTracks == InitTracks /\ [][NextTracks]_vars

\* ------------------------------------------------------------ specifications
\* concurrent callers of get_access_token
NextConc ==
    \/ \E t \in Threads : CallGetAccessToken(t)
    \/ \E t \in Threads : AcquireLock(t)
    \/ \E t \in Threads : CacheHit(t)
    \/ \E t \in Threads : SendExchange(t)
    \/ \E t \in Threads : ExchangeResponse(t)
    \/ \E t \in Threads : ReturnToken(t)
    \/ Tick

SpecConc == Init /\ [][NextConc]_vars

\* one request handler running the pipeline
Next ==
    \/ CallGetAccessToken(Main)
    \/ CallMakeRequest(Main)
    \/ AcquireLock(Main)
    \/ CacheHit(Main)
    \/ SendExchange(Main)
    \/ ExchangeResponse(Main)
    \/ ReturnToken(Main)
    \/ NoToken(Main)
    \/ SendRequest(Main)
    \/ ApiResponse(Main)
    \/ ReturnRequest(Main)
    \/ CallFetchStates(Main)
    \/ DecodeStates(Main)
    \/ ReturnStates(Main)
    \/ CallFetchTrack(Main)
    \/ DecodeTrack(Main)
    \/ ReturnTrack(Main)
    \/ Tick

Spec == Init /\ [][Next]_vars

\* ==================================================================== claims
IsGet(c) == c.k = "GET"
Gets(t) == SelectSeq(calls[t], IsGet)

\* the POSTs made since the last GET of the log (all of them when there is none)
RECURSIVE TrailingPosts(_)
TrailingPosts(log) ==
    IF log = <<>> \/ log[Len(log)].k = "GET" THEN 0
    ELSE 1 + TrailingPosts(SubSeq(log, 1, Len(log) - 1))

Is401(resp) == resp.kind = "response" /\ resp.status = HTTP_UNAUTHORIZED
Succeeded(resp) ==
    resp.kind = "response" /\ resp.status = STATUS_OK /\ resp.body # UNDECODABLE
NonAuthFailure(resp) ==
    \/ resp.kind = "transport"
    \/ /\ resp.kind = "response"
       /\ resp.status # HTTP_UNAUTHORIZED
       /\ (resp.status >= 400 \/ resp.body = UNDECODABLE)

\* C1: one make_opensky_request call never issues a third GET; when the first
\* GET answers 401 and the second succeeds the call returns the second
\* response's payload, and when both answer 401 it returns None, after
\* exactly two GETs in both cases.
C1_SingleRetry ==
    \A t \in Threads :
        LET G == Gets(t)
        IN /\ Len(G) <= 2
           /\ (pc[t] = "mor_ret" /\ Len(G) = 2 /\ Is401(G[1].resp) /\ Succeeded(G[2].resp))
                => result[t] = PyJson(G[2].resp.body)
           /\ (pc[t] = "mor_ret" /\ Len(G) = 2 /\ Is401(G[1].resp) /\ Is401(G[2].resp))
                => result[t] = ResultNone

C1_Witness ==
    \E t \in Threads :
        /\ pc[t] = "mor_ret"
        /\ Len(Gets(t)) = 2
        /\ Is401(Gets(t)[1].resp)
        /\ Succeeded(Gets(t)[2].resp)
        /\ result[t].k = "json"

\* C2 (as claimed): once the first GET has answered 401, exactly one POST to
\* the auth endpoint is made before the call goes on, whether or not the
\* cached token is inside its validity window, and the retry GET carries the
\* token that POST produced.
C2_ForcedReauth ==
    \A t \in Threads :
        (site[t] = "line80" /\ pc[t] \in {"gat_ret", "mor_get", "mor_ret"})
            => LET log == calls[t]
                   first == CHOOSE i \in 1 .. Len(log) :
                               log[i].k = "GET" /\ \A j \in 1 .. i - 1 : log[j].k # "GET"
                   after == SubSeq(log, first + 1, Len(log))
               IN /\ CountCalls(after, "POST") = 1
                  /\ Len(Gets(t)) = 2 => Gets(t)[2].tok = after[1].tok

\* C3 (as claimed): a get_access_token call whose exchange fails returns None
\* and leaves access_token and token_expires_at as they were.
C3_FailedExchangeKeepsCache ==
    ev.path = "failed"
        => /\ ev.tok = NONE
           /\ token[ev.t] = NONE
           /\ access_token = ev.pre_tok
           /\ token_expires_at = ev.pre_exp

\* C4: at most one token exchange is in flight and at most one caller is
\* between the cache check and the end of the refresh; that caller holds
\* token_lock and every other caller is outside the critical section
\* (not entered, blocked on the lock, or already out).
C4_OneExchangeInFlight ==
    /\ Cardinality({t \in Threads : pc[t] = "gat_post"}) <= 1
    /\ Cardinality({t \in Threads : pc[t] \in {"gat_check", "gat_post"}}) <= 1
    /\ \A t \in Threads : pc[t] \in {"gat_check", "gat_post"} <=> token_lock = t

C4_Witness ==
    \E t, u \in Threads : t # u /\ pc[t] = "gat_post" /\ pc[u] = "gat_lock"

\* the expires_in the exchange used: the payload's, or the default
UsedExpiresIn(o) == IF o.ei.present THEN o.ei.v ELSE DEFAULT_EXPIRES_IN

\* C5 (as claimed): every token returned by get_access_token at time t
\* satisfies t < expiry - 60, on the cache-hit path and on the
\* fresh-exchange path, for every expires_in (stated for the bearer strings
\* of Tokens, the plainest of the non-None values).
C5_MarginAlways ==
    (ev.path \in {"hit", "fresh"} /\ ev.tok \in Tokens)
        => ev.at < token_expires_at - SAFETY_MARGIN

\* C5 (amended): a non-None token returned on the cache-hit path at time t
\* satisfies t < expiry - 60; one returned on the fresh-exchange path
\* satisfies it exactly when the expires_in used is greater than 60.
C5_MarginOnHitOrLongLived ==
    /\ (ev.path = "hit" /\ ev.tok # NONE)
          => ev.at < token_expires_at - SAFETY_MARGIN
    /\ (ev.path = "fresh" /\ ev.tok # NONE)
          => (ev.at < token_expires_at - SAFETY_MARGIN
                <=> UsedExpiresIn(ev.o) > SAFETY_MARGIN)

\* a hit at the last instant of the validity window
C5_Witness ==
    /\ ev.path = "hit"
    /\ ev.tok \in Tokens
    /\ ev.at = token_expires_at - SAFETY_MARGIN - 1

\* C6: whenever a token is cached and now < token_expires_at - 60,
\* get_access_token returns the cached token, makes no POST, and leaves
\* access_token and token_expires_at unchanged.
C6_CacheHit ==
    (ev.t # 0 /\ Truthy(ev.pre_tok) /\ ev.at < ev.pre_exp - SAFETY_MARGIN)
        => /\ ev.path = "hit"
           /\ ev.tok = ev.pre_tok
           /\ token[ev.t] = ev.pre_tok
           /\ TrailingPosts(calls[ev.t]) = 0
           /\ access_token = ev.pre_tok
           /\ token_expires_at = ev.pre_exp

C6_Witness ==
    /\ ev.t # 0
    /\ ev.path = "hit"
    /\ ev.tok \in Tokens
    /\ op[ev.t] = "get_access_token"
    /\ calls[ev.t] = <<>>

\* C7: whenever no token is cached or now >= token_expires_at - 60, one
\* get_access_token call makes exactly one POST; on success the cached token
\* is the new one, the expiry is now + expires_in (1800 when absent) and the
\* new token is returned.
C7_RefreshOnExpiry ==
    (ev.t # 0 /\ ~(Truthy(ev.pre_tok) /\ ev.at < ev.pre_exp - SAFETY_MARGIN))
        => /\ ev.path \in {"fresh", "failed"}
           /\ TrailingPosts(calls[ev.t]) = 1
           /\ ExchangeSucceeds(ev.o)
                => /\ access_token = ev.o.at
                   /\ token[ev.t] = ev.o.at
                   /\ token_expires_at = ev.at + UsedExpiresIn(ev.o)

\* an expired cached token replaced, with the default lifetime
C7_Witness ==
    /\ ev.path = "fresh"
    /\ ev.pre_tok \in Tokens
    /\ ev.at >= ev.pre_exp - SAFETY_MARGIN
    /\ ~ev.o.ei.present
    /\ ev.o.at \in Tokens
    /\ access_token = ev.o.at
    /\ token_expires_at = ev.at + DEFAULT_EXPIRES_IN

\* C8: no GET is ever sent without a token: when get_access_token yields no
\* token at the start, the request returns None with zero GETs, and when it
\* yields none after a 401, the request returns None without the retry GET.
C8_NoTokenNoCall ==
    \A t \in Threads :
        /\ \A i \in 1 .. Len(calls[t]) :
              calls[t][i].k = "GET" => Truthy(calls[t][i].tok)
        /\ (pc[t] = "mor_ret" /\ ~Truthy(token[t]))
              => /\ result[t] = ResultNone
                 /\ Len(Gets(t)) = IF site[t] = "line71" THEN 0 ELSE 1

C8_Witness ==
    \E t \in Threads :
        /\ pc[t] = "mor_ret"
        /\ site[t] = "line80"
        /\ ~Truthy(token[t])
        /\ Len(Gets(t)) = 1
        /\ result[t] = ResultNone

\* C9: when the first GET fails otherwise than by a 401 (transport error,
\* error status, undecodable body), the request is over: it returns None
\* after that one GET, with no POST and no second GET after it.
C9_NonAuthFailureTerminal ==
    \A t \in Threads :
        LET G == Gets(t)
        IN (Len(G) >= 1 /\ NonAuthFailure(G[1].resp))
              => /\ pc[t] \in {"mor_ret", "fetch_ret", "track_ret"}
                 /\ Len(G) = 1
                 /\ TrailingPosts(calls[t]) = 0
                 /\ pc[t] = "mor_ret" => result[t] = ResultNone

C9_Witness ==
    \E t \in Threads :
        /\ pc[t] = "mor_ret"
        /\ Len(Gets(t)) = 1
        /\ Gets(t)[1].resp.kind = "response"
        /\ Gets(t)[1].resp.status = STATUS_SERVER_ERROR
        /\ result[t] = ResultNone

\* C10 (as claimed): fetch_all_aircraft_states always returns a list and
\* never raises, whatever the token exchange and the API answer.
C10_NeverRaises ==
    \A t \in Threads : pc[t] = "fetch_ret" => result[t].k = "list"

\* the body of the response the running call decoded
LastBody(t) == r[t].body

\* C11 (as claimed): fetch_live_track returns a sequence and never raises,
\* and the sequence is empty when the identifier is empty, when the request
\* failed and when the response has no path ('path' missing, null or empty).
C11_EmptySafeTrack ==
    \A t \in Threads :
        pc[t] = "track_ret"
            => /\ result[t].k = "list"
               /\ ( \/ Falsy(arg[t])
                    \/ ~Succeeded(r[t])
                    \/ ~HasPath(LastBody(t))
                    \/ LastBody(t).path.ty = "null"
                    \/ LastBody(t).path = JArr(<<>>) )
                  => result[t].list = <<>>

\* the state vectors of a batch that follow the upstream schema: arrays
\* whose callsign, when they are decoded, is a string or null
SchemaVector(s) ==
    /\ s.ty = "arr"
    /\ Len(s.items) >= MIN_STATE_LEN => s.items[2].ty \in {"str", "null"}
IsDecodable(s) == Len(s.items) >= MIN_STATE_LEN

\* C12: for a batch of state vectors, fetch_all_aircraft_states returns one
\* decoded state per vector of 17 or more positions, in upstream order, and
\* none for shorter ones; a vector of 17 decodes with category None, one of
\* 18 or more carries position 17 as its category.
C12_DecodeRobustness ==
    \A t \in Threads :
        (/\ pc[t] = "fetch_ret"
         /\ Succeeded(r[t])
         /\ LastBody(t).ty = "states"
         /\ LastBody(t).states.ty = "arr"
         /\ \A i \in 1 .. Len(LastBody(t).states.items) :
               SchemaVector(LastBody(t).states.items[i]))
            => LET kept == SelectSeq(LastBody(t).states.items, IsDecodable)
                   out == result[t].list
               IN /\ result[t].k = "list"
                  /\ Len(out) = Len(kept)
                  /\ \A i \in 1 .. Len(kept) :
                        /\ out[i].icao24 = kept[i].items[1]
                        /\ out[i].baro_altitude = kept[i].items[8]
                        /\ out[i].on_ground = kept[i].items[9]
                        /\ out[i].category =
                              IF Len(kept[i].items) = MIN_STATE_LEN THEN JNull
                              ELSE kept[i].items[MIN_STATE_LEN + 1]

\* a batch of a 17-position and an 18-position vector, both decoded in order
C12_Witness ==
    \E t \in Threads :
        /\ pc[t] = "fetch_ret"
        /\ Succeeded(r[t])
        /\ LastBody(t).ty = "states"
        /\ LastBody(t).states.ty = "arr"
        /\ Len(LastBody(t).states.items) = 2
        /\ \A i \in 1 .. 2 : SchemaVector(LastBody(t).states.items[i])
        /\ Len(LastBody(t).states.items[1].items) = MIN_STATE_LEN
        /\ Len(LastBody(t).states.items[2].items) = MIN_STATE_LEN + 1
        /\ Len(result[t].list) = 2
        /\ result[t].list[1].category = JNull
        /\ result[t].list[2].category = JNum(6)

\* the waypoints of a path as the track endpoint documents them
WellFormedPath(body) ==
    /\ HasPath(body)
    /\ body.path.ty = "arr"
    /\ \A i \in 1 .. Len(body.path.items) :
          body.path.items[i].ty = "arr" /\ Len(body.path.items[i].items) >= 3
BothCoords(wp) == wp.items[2] # JNull /\ wp.items[3] # JNull

\* C15: for an upstream path, fetch_live_track returns the (lat, lon) pairs
\* of the waypoints that have both coordinates, in upstream order, with no
\* reordering and no deduplication; the others contribute nothing.
C15_TrackPairs ==
    \A t \in Threads :
        (/\ pc[t] = "track_ret"
         /\ ~Falsy(arg[t])
         /\ Succeeded(r[t])
         /\ WellFormedPath(LastBody(t)))
            => LET kept == SelectSeq(LastBody(t).path.items, BothCoords)
               IN /\ result[t].k = "list"
                  /\ result[t].list =
                        [i \in 1 .. Len(kept) |-> <<kept[i].items[2], kept[i].items[3]>>]

\* a path whose first waypoint lacks a coordinate and whose second is (0, 0)
C15_Witness ==
    \E t \in Threads :
        /\ pc[t] = "track_ret"
        /\ Succeeded(r[t])
        /\ WellFormedPath(LastBody(t))
        /\ Len(LastBody(t).path.items) = 2
        /\ ~BothCoords(LastBody(t).path.items[1])
        /\ result[t].list = <<(<<JNum(0), JNum(0)>>)>>

\* the predicates of a filter spec, stated on one aircraft state
SatCallsign(x, f) ==
    f.callsign_pattern.has =>
        Contains(Upper(f.callsign_pattern.v.s), Upper(x.callsign.s))
SatCountry(x, f) == f.country.has => x.origin_country = f.country.v
SatCountryIfNamed(x, f) ==
    (f.country.has /\ f.country.v.s # <<>>) => x.origin_country = f.country.v
SatCategory(x, f) == f.category.has => x.category = f.category.v
SatMin(x, f) ==
    f.min_altitude.has =>
        x.baro_altitude # JNull /\ x.baro_altitude.n >= f.min_altitude.v.n
SatMax(x, f) ==
    f.max_altitude.has =>
        x.baro_altitude # JNull /\ x.baro_altitude.n <= f.max_altitude.v.n
SatGround(x, f) == f.on_ground.has => x.on_ground = f.on_ground.v
EmptySpec(f) == \A key \in DOMAIN f : ~f[key].has
FilterDone == pure.fn = "filter_aircraft" /\ pure.done

\* C13 (as claimed): filter_aircraft returns the order-preserving
\* subsequence of the states that satisfy every predicate present in the
\* spec (AND of callsign substring ignoring case, country equality, category
\* equality, min altitude, max altitude, on_ground equality); an absent key
\* imposes no constraint, the empty spec returns everything, and the input
\* is not mutated.
C13_FilterAllPresent ==
    FilterDone =>
        LET Sat(x) == /\ SatCallsign(x, pure.filters)
                      /\ SatCountry(x, pure.filters)
                      /\ SatCategory(x, pure.filters)
                      /\ SatMin(x, pure.filters)
                      /\ SatMax(x, pure.filters)
                      /\ SatGround(x, pure.filters)
        IN /\ pure.out = SelectSeq(pure.given, Sat)
           /\ pure.aircraft = pure.given

\* C13 (amended): as above, except that country equality applies only when
\* the country given is not empty: an empty country, like an absent key,
\* imposes no constraint.
C13_FilterNamedCountry ==
    FilterDone =>
        LET Sat(x) == /\ SatCallsign(x, pure.filters)
                      /\ SatCountryIfNamed(x, pure.filters)
                      /\ SatCategory(x, pure.filters)
                      /\ SatMin(x, pure.filters)
                      /\ SatMax(x, pure.filters)
                      /\ SatGround(x, pure.filters)
        IN /\ pure.out = SelectSeq(pure.given, Sat)
           /\ pure.aircraft = pure.given
           /\ EmptySpec(pure.filters) => pure.out = pure.given

\* a lower-case pattern and a category select the upper-case callsign of
\* category 6 out of two aircraft, the other one matching the pattern too
C13_Witness ==
    /\ FilterDone
    /\ pure.filters.callsign_pattern = Given(JStr(<<"e", "j", "a">>))
    /\ pure.filters.category = Given(JNum(6))
    /\ Len(pure.given) = 2
    /\ pure.given[1].callsign = JStr(CS_LOWER)
    /\ pure.given[2].callsign = JStr(<<"E", "J", "A", "1">>)
    /\ pure.out = <<pure.given[2]>>

\* C14: when the spec has min_altitude or max_altitude (0 included), no
\* state of unknown altitude is in the result and every state in it lies
\* within the bounds present, inclusive, whatever its on_ground flag.
C14_AltitudeFailClosed ==
    (FilterDone /\ (pure.filters.min_altitude.has \/ pure.filters.max_altitude.has))
        => \A i \in 1 .. Len(pure.out) :
              /\ pure.out[i].baro_altitude # JNull
              /\ pure.filters.min_altitude.has
                    => pure.out[i].baro_altitude.n >= pure.filters.min_altitude.v.n
              /\ pure.filters.max_altitude.has
                    => pure.out[i].baro_altitude.n <= pure.filters.max_altitude.v.n

\* min_altitude = 0 alone: the state of unknown altitude is dropped and the
\* grounded one at altitude 0 is kept
C14_Witness ==
    /\ FilterDone
    /\ pure.filters.min_altitude = Given(JNum(0))
    /\ \A key \in DOMAIN pure.filters \ {"min_altitude"} : ~pure.filters[key].has
    /\ Len(pure.given) = 2
    /\ pure.given[1].baro_altitude = JNull
    /\ pure.given[2].baro_altitude = JNum(0)
    /\ pure.given[2].on_ground = JBool(TRUE)
    /\ pure.out = <<pure.given[2]>>

\* the tracks a batch has produced: entries of the dict returned by
\* api_tracks_bulk, polylines drawn by create_flight_map
TracksProduced ==
    IF pure.fn = "api_tracks_bulk" THEN Cardinality(DOMAIN pure.out) ELSE Len(pure.lines)

\* C16 (as claimed): for every filtered aircraft list and every track_limit
\* (0 and negative included), api_tracks_bulk and create_flight_map (tracks
\* shown, no whitelist) issue at most max(0, track_limit) track fetches and
\* produce at most max(0, track_limit) tracks.
C16_BatchCapped ==
    (pure.fn \in {"api_tracks_bulk", "create_flight_map"} /\ ~pure.whitelist.given)
        => /\ pure.fetches <= Max0(pure.limit)
           /\ TracksProduced <= Max0(pure.limit)

\* an exchange of the burst that succeeded with a token and expires_in > 60
GoodExchange(g) ==
    /\ g.path = "fresh"
    /\ g.tok \in Tokens
    /\ g.life > SAFETY_MARGIN
\* the time is still before the expiry that exchange set, minus the margin
InWindow(g) == now < g.at + g.life - SAFETY_MARGIN
\* a burst of concurrent callers in which every exchange so far was good
BurstCase ==
    /\ pure.fn = "get_access_token"
    /\ pure.exchanges # <<>>
    /\ \A i \in 1 .. Len(pure.exchanges) : GoodExchange(pure.exchanges[i])
\* one POST in all, sent or answered, and every caller that has returned
\* holds the token it produced
OneExchangeForAll ==
    /\ Cardinality({t \in Threads : CountCalls(calls[t], "POST") > 0}) = 1
    /\ \A t \in Threads : CountCalls(calls[t], "POST") <= 1
    /\ \A t \in Threads : pc[t] = "gat_ret" => token[t] = pure.exchanges[1].tok

\* C17 (as claimed): when the threads call get_access_token concurrently
\* with the cache empty or expired and the exchange succeeds with
\* expires_in > 60, exactly one exchange is performed under every
\* interleaving: the first thread to take the lock refreshes, the others hit
\* the cache, and all return the same token.
C17_SingleExchange == BurstCase => OneExchangeForAll

\* C17 (amended): the same, as long as the time is before the new token's
\* expiry minus 60 (every cache check so far took place in the window in
\* which the new token is valid).
C17_SingleExchangeInWindow ==
    (BurstCase /\ \A i \in 1 .. Len(pure.exchanges) : InWindow(pure.exchanges[i]))
        => OneExchangeForAll

\* every thread has returned after time has passed, one of them after the
\* only exchange and the others after a cache hit on its token
C17_Witness ==
    /\ BurstCase
    /\ \A i \in 1 .. Len(pure.exchanges) : InWindow(pure.exchanges[i])
    /\ now > pure.exchanges[1].at
    /\ \A t \in Threads : pc[t] = "gat_ret" /\ token[t] = pure.exchanges[1].tok
    /\ \E t \in Threads : calls[t] = <<>>

\* C18: token_lock is released on every exit path of get_access_token
\* (cache hit, successful exchange, failed exchange): a thread outside the
\* with block never holds it; and with network calls that return or time out
\* and a fair lock, every get_access_token call and every
\* make_opensky_request call of every thread eventually ends, also when
\* every exchange fails.
C18_LockReleasedCallsEnd ==
    /\ [](\A t \in Threads : token_lock = t => pc[t] \in {"gat_check", "gat_post"})
    /\ \A t \in Threads : (pc[t] # "idle") ~> (pc[t] = "idle")

\* a thread has left get_access_token through the except path, the lock is
\* free and another thread is waiting for it
C18_Witness ==
    \E t, u \in Threads :
        /\ t # u
        /\ ev.t = t
        /\ ev.path = "failed"
        /\ pc[t] = "gat_ret"
        /\ token_lock = 0
        /\ pc[u] = "gat_lock"
====
